---- MODULE Spec2Model ----
(***************************************************************************)
(* Workflow graph model and WorkflowEngine of salcp                        *)
(* (src/workflow/workflow_engine.py, src/workflow/blocks.py).              *)
(*                                                                         *)
(* A Workflow is a dict of blocks (insertion ordered) and a list of        *)
(* connections.  A WorkflowEngine owns results and execution_log and runs  *)
(* the blocks in the order _topological_sort computes.                     *)
(***************************************************************************)
EXTENDS Integers, Sequences, FiniteSets, TLC

VARIABLES
    name,             \* Workflow.name
    blocks,           \* Workflow.blocks: insertion-ordered dict, a sequence of Block records
    connections,      \* Workflow.connections: list of Connection records
    execution_log,    \* WorkflowEngine.execution_log
    results,          \* WorkflowEngine.results: block id -> outputs
    pc,               \* position of the execute() call: "idle", "bind" or "invoke"
    execution_order,  \* local of execute(): the order being iterated (<<>> outside a run)
    idx,              \* local of execute(): position of the for loop (0 outside a run)
    report,           \* what the last API call returned when it was execute(), else NoReport
    raised,           \* the exception the last API call raised, or None
    calls,            \* the number of API calls made so far
    call,             \* the statistics call under way: its function and arguments
    ret,              \* what that call returned or raised (NotReturned before)
    heap,             \* the list and dict objects execute() created: address -> contents
    self_at,          \* the addresses self.execution_log and self.results are bound to
    callers           \* the execute() calls of several callers: their locals and reports

vars == <<name, blocks, connections, execution_log, results, pc,
          execution_order, idx, report, raised, calls, call, ret,
          heap, self_at, callers>>

----------------------------------------------------------------------------
(* Bounds and the small sets the call arguments are drawn from.            *)

\* the most connections the connect action lets the list grow to
MaxConns == 2
\* the most API calls (add_block, ..., execute) of one behaviour
MaxCalls == 7

BlockIds == {"b1", "b2", "b3"}
OutPorts == {"data"}
InPorts == {"data"}
ParamNames == {"file_path"}
ParamValues == {"ok.csv"}
Names == {"analysis"}

\* Files the loader can open and parse.
ReadableFiles == {"ok.csv"}

\* Python's None (dict.get on a missing key).
None == "None"

EmptyMap == [k \in {} |-> None]

----------------------------------------------------------------------------
(* blocks.py                                                               *)

\* enum BlockType: member -> value
BlockType ==
    [LOAD_CSV |-> "load_csv", FILTER_ROWS |-> "filter_rows",
     SELECT_COLUMNS |-> "select_columns", HANDLE_MISSING |-> "handle_missing",
     REMOVE_DUPLICATES |-> "remove_duplicates",
     REMOVE_OUTLIERS |-> "remove_outliers",
     DESCRIPTIVE_STATS |-> "descriptive_stats", CORRELATION |-> "correlation",
     DISTRIBUTION |-> "distribution", T_TEST |-> "t_test", ANOVA |-> "anova",
     CHI_SQUARE |-> "chi_square", AB_TEST |-> "ab_test",
     PLOT_HISTOGRAM |-> "plot_histogram", PLOT_SCATTER |-> "plot_scatter",
     PLOT_BOX |-> "plot_box", EXPORT_CSV |-> "export_csv",
     EXPORT_REPORT |-> "export_report"]

\* BLOCK_REGISTRY: the members that have a block class
BLOCK_REGISTRY ==
    {"LOAD_CSV", "FILTER_ROWS", "SELECT_COLUMNS", "HANDLE_MISSING",
     "REMOVE_DUPLICATES", "T_TEST", "AB_TEST", "DESCRIPTIVE_STATS",
     "CORRELATION"}

\* the tags add_block is called with in the workflow-building behaviours:
\* a source block, a block with an input, and a tag without a class
AddedTypes == {"LOAD_CSV", "REMOVE_DUPLICATES", "ANOVA"}

\* BlockParameter(name, ..., required=...)
BlockParameter(pname, required) == [name |-> pname, required |-> required]

\* the PARAMETERS schema of each block class
PARAMETERS ==
    [LOAD_CSV |-> <<BlockParameter("file_path", TRUE)>>,
     FILTER_ROWS |-> <<BlockParameter("column", TRUE),
                       BlockParameter("operator", TRUE),
                       BlockParameter("value", TRUE)>>,
     SELECT_COLUMNS |-> <<BlockParameter("columns", TRUE)>>,
     HANDLE_MISSING |-> <<BlockParameter("method", TRUE),
                          BlockParameter("columns", FALSE)>>,
     REMOVE_DUPLICATES |-> <<BlockParameter("columns", FALSE)>>,
     T_TEST |-> <<BlockParameter("group_column", TRUE),
                  BlockParameter("value_column", TRUE),
                  BlockParameter("group1", TRUE),
                  BlockParameter("group2", TRUE)>>,
     AB_TEST |-> <<BlockParameter("group_column", TRUE),
                   BlockParameter("metric_column", TRUE),
                   BlockParameter("metric_type", TRUE)>>,
     DESCRIPTIVE_STATS |-> <<BlockParameter("columns", FALSE)>>,
     CORRELATION |-> <<BlockParameter("method", TRUE),
                       BlockParameter("columns", FALSE)>>]

\* Block.__init__ through the subclass constructor
Block(block_id, block_type) ==
    [block_id |-> block_id, block_type |-> block_type,
     parameters |-> EmptyMap, inputs |-> EmptyMap]

\* mutant: a tag without a registered class gets a plain Block
create_block_any(block_type, block_id) ==
    [raised |-> FALSE, block |-> Block(block_id, block_type)]

\* create_block: the registered class's instance, or ValueError
create_block(block_type, block_id) ==
    IF block_type \in BLOCK_REGISTRY
    THEN [raised |-> FALSE, block |-> Block(block_id, block_type)]
    ELSE [raised |-> TRUE, block |-> None]

\* dict.get(key) with None for a missing key
Get(map, key) == IF key \in DOMAIN map THEN map[key] ELSE None

\* Block.set_parameter
set_parameter(block, pname, value) ==
    [block EXCEPT !.parameters =
        [k \in DOMAIN block.parameters \cup {pname} |->
            IF k = pname THEN value ELSE block.parameters[k]]]

\* Block.set_input
set_input(block, port, value) ==
    [block EXCEPT !.inputs =
        [k \in DOMAIN block.inputs \cup {port} |->
            IF k = port THEN value ELSE block.inputs[k]]]

\* what a table-valued port can hold: the loaded table and the tables the
\* cleaning blocks make of it
Tables == {"raw", "dedup", "filtered", "selected", "filled"}

\* str(e) of the exceptions the blocks raise
ErrorLoadingCSV == "Error loading CSV"
NoDropDuplicates == "no attribute drop_duplicates"
NotSubscriptable == "object is not subscriptable"
NoSuchAttribute == "object has no attribute"
KeyErrorNone == "None"
FloatOfNone == "float() argument must be a string or a real number, not 'NoneType'"

\* str(KeyError(pname)) of self.parameters[pname]
MissingKey ==
    [group_column |-> "'group_column'", value_column |-> "'value_column'",
     group1 |-> "'group1'", group2 |-> "'group2'",
     metric_column |-> "'metric_column'"]

\* execute() returned the dict out, whose keys are keys
Returns(keys, out) ==
    [raised |-> FALSE, keys |-> keys, out |-> out, error |-> None]

\* execute() raised an exception whose str() is error
Raises(error) ==
    [raised |-> TRUE, keys |-> <<>>, out |-> EmptyMap, error |-> error]

\* LoadCSVBlock.execute: DataLoader.load_csv raises unless the file can be read
LoadCSVBlock_execute(block) ==
    IF Get(block.parameters, "file_path") \in ReadableFiles
    THEN [raised |-> FALSE, keys |-> <<"data", "metadata">>,
          out |-> [data |-> "raw", metadata |-> "meta"], error |-> None]
    ELSE [raised |-> TRUE, keys |-> <<>>, out |-> EmptyMap,
          error |-> ErrorLoadingCSV]

\* the operators of FilterRowsBlock that compare with value as it is, and
\* those that compare with float(value)
PlainOperators == {"==", "!=", "contains"}
FloatOperators == {">", "<", ">=", "<="}

\* FilterRowsBlock.execute: an operator of the if chain indexes data[column]
\* (and takes float(value)); any other operator returns data as it is
FilterRowsBlock_execute(block) ==
    LET data == Get(block.inputs, "data")
        column == Get(block.parameters, "column")
        operator == Get(block.parameters, "operator")
        value == Get(block.parameters, "value")
    IN  IF operator \in PlainOperators \cup FloatOperators
        THEN IF data \notin Tables THEN Raises(NotSubscriptable)
             ELSE IF column = None THEN Raises(KeyErrorNone)
             ELSE IF operator \in FloatOperators /\ value = None
                  THEN Raises(FloatOfNone)
             ELSE Returns(<<"data">>, [data |-> "filtered"])
        ELSE Returns(<<"data">>, [data |-> data])

\* SelectColumnsBlock.execute: data[columns]
SelectColumnsBlock_execute(block) ==
    LET data == Get(block.inputs, "data")
        columns == Get(block.parameters, "columns")
    IN  IF data \notin Tables THEN Raises(NotSubscriptable)
        ELSE IF columns = None THEN Raises(KeyErrorNone)
        ELSE Returns(<<"data">>, [data |-> "selected"])

\* HandleMissingBlock.execute: a copy of data, treated by the method's branch;
\* no branch for a method that is none of the options
HandleMissingBlock_execute(block) ==
    LET data == Get(block.inputs, "data")
        method == Get(block.parameters, "method")
    IN  IF data \notin Tables THEN Raises(NoSuchAttribute)
        ELSE IF method = None THEN Returns(<<"data">>, [data |-> data])
        ELSE Returns(<<"data">>, [data |-> "filled"])

\* RemoveDuplicatesBlock.execute: data.drop_duplicates() needs a table on "data"
RemoveDuplicatesBlock_execute(block) ==
    IF Get(block.inputs, "data") \in Tables
    THEN [raised |-> FALSE, keys |-> <<"data">>,
          out |-> [data |-> "dedup"], error |-> None]
    ELSE [raised |-> TRUE, keys |-> <<>>, out |-> EmptyMap,
          error |-> NoDropDuplicates]

\* self.parameters[p] for each p of names in turn: the first missing one
\* raises KeyError(p)
RECURSIVE FirstMissing(_, _)
FirstMissing(block, names) ==
    IF names = <<>> THEN None
    ELSE IF Head(names) \notin DOMAIN block.parameters THEN Head(names)
    ELSE FirstMissing(block, Tail(names))

\* TTestBlock.execute: the arguments of tests.t_test are read with
\* self.parameters[...] before the call
TTestBlock_execute(block) ==
    LET data == Get(block.inputs, "data")
        missing == FirstMissing(block,
                       <<"group_column", "value_column", "group1", "group2">>)
    IN  IF missing # None THEN Raises(MissingKey[missing])
        ELSE IF data \notin Tables THEN Raises(NotSubscriptable)
        ELSE Returns(<<"result">>, [result |-> "t_test"])

\* ABTestBlock.execute: group_column and metric_column are read with
\* self.parameters[...], metric_type with .get(..., 'continuous')
ABTestBlock_execute(block) ==
    LET data == Get(block.inputs, "data")
        missing == FirstMissing(block, <<"group_column", "metric_column">>)
    IN  IF missing # None THEN Raises(MissingKey[missing])
        ELSE IF data \notin Tables THEN Raises(NotSubscriptable)
        ELSE Returns(<<"result">>, [result |-> "ab_test"])

\* DescriptiveStatsBlock.execute: data[columns].describe()
DescriptiveStatsBlock_execute(block) ==
    IF Get(block.inputs, "data") \notin Tables THEN Raises(NoSuchAttribute)
    ELSE Returns(<<"result">>, [result |-> "describe"])

\* CorrelationBlock.execute: data[columns].corr(method), method 'pearson'
\* when not configured
CorrelationBlock_execute(block) ==
    IF Get(block.inputs, "data") \notin Tables THEN Raises(NoSuchAttribute)
    ELSE Returns(<<"result">>, [result |-> "corr"])

\* block.execute(), dispatched on the block's class
Block_execute(block) ==
    CASE block.block_type = "LOAD_CSV" -> LoadCSVBlock_execute(block)
      [] block.block_type = "FILTER_ROWS" -> FilterRowsBlock_execute(block)
      [] block.block_type = "SELECT_COLUMNS" -> SelectColumnsBlock_execute(block)
      [] block.block_type = "HANDLE_MISSING" -> HandleMissingBlock_execute(block)
      [] block.block_type = "REMOVE_DUPLICATES" ->
             RemoveDuplicatesBlock_execute(block)
      [] block.block_type = "T_TEST" -> TTestBlock_execute(block)
      [] block.block_type = "AB_TEST" -> ABTestBlock_execute(block)
      [] block.block_type = "DESCRIPTIVE_STATS" ->
             DescriptiveStatsBlock_execute(block)
      [] block.block_type = "CORRELATION" -> CorrelationBlock_execute(block)

----------------------------------------------------------------------------
(* The blocks dict: a sequence of Block records with distinct block_id.    *)

Keys(bs) == {bs[i].block_id : i \in DOMAIN bs}

KeySeq(bs) == [i \in DOMAIN bs |-> bs[i].block_id]

Lookup(bs, id) == bs[CHOOSE i \in DOMAIN bs : bs[i].block_id = id]

\* bs[id] = b : an existing key keeps its position
DictSet(bs, id, b) ==
    IF id \in Keys(bs)
    THEN [i \in DOMAIN bs |-> IF bs[i].block_id = id THEN b ELSE bs[i]]
    ELSE Append(bs, b)

\* del bs[id]
DictDel(bs, id) == SelectSeq(bs, LAMBDA b : b.block_id # id)

----------------------------------------------------------------------------
(* workflow_engine.py: Connection and Workflow                             *)

Connection(from_block, from_output, to_block, to_input) ==
    [from_block |-> from_block, from_output |-> from_output,
     to_block |-> to_block, to_input |-> to_input]

\* mutant: an id that is present keeps its block
add_block_keep_existing(bs, block_type, block_id) ==
    LET made == create_block(block_type, block_id)
    IN  IF made.raised
        THEN [raised |-> TRUE, blocks |-> bs]
        ELSE IF block_id \in Keys(bs)
        THEN [raised |-> FALSE, blocks |-> bs]
        ELSE [raised |-> FALSE, blocks |-> Append(bs, made.block)]

\* Workflow.add_block with an explicit block_id (without one the code draws a
\* new id from uuid4, which is an id of its own as well)
add_block(bs, block_type, block_id) ==
    LET made == create_block(block_type, block_id)
    IN  IF made.raised
        THEN [raised |-> TRUE, blocks |-> bs]
        ELSE [raised |-> FALSE, blocks |-> DictSet(bs, block_id, made.block)]

\* mutant: the block is deleted and its connections are kept
remove_block_keep_connections(bs, cs, block_id) ==
    IF block_id \in Keys(bs)
    THEN [blocks |-> DictDel(bs, block_id), connections |-> cs]
    ELSE [blocks |-> bs, connections |-> cs]

\* Workflow.remove_block
remove_block(bs, cs, block_id) ==
    IF block_id \in Keys(bs)
    THEN [blocks |-> DictDel(bs, block_id),
          connections |->
              SelectSeq(cs, LAMBDA conn :
                  conn.from_block # block_id /\ conn.to_block # block_id)]
    ELSE [blocks |-> bs, connections |-> cs]

\* Workflow.connect
connect(bs, cs, from_block, from_output, to_block, to_input) ==
    IF from_block \notin Keys(bs) \/ to_block \notin Keys(bs)
    THEN [raised |-> TRUE, connections |-> cs]
    ELSE [raised |-> FALSE,
          connections |->
              Append(cs, Connection(from_block, from_output, to_block, to_input))]

\* Workflow.disconnect
disconnect(cs, from_block, to_block) ==
    SelectSeq(cs, LAMBDA conn :
        ~(conn.from_block = from_block /\ conn.to_block = to_block))

\* Workflow.set_block_parameter
set_block_parameter(bs, block_id, pname, value) ==
    IF block_id \in Keys(bs)
    THEN DictSet(bs, block_id, set_parameter(Lookup(bs, block_id), pname, value))
    ELSE bs

\* mutant: a block's type is written as the enum member's name
to_dict_member_name(w) ==
    [name |-> w.name,
     blocks |->
         [i \in DOMAIN w.blocks |->
             [id |-> w.blocks[i].block_id,
              type |-> w.blocks[i].block_type,
              parameters |-> w.blocks[i].parameters]],
     connections |->
         [i \in DOMAIN w.connections |->
             [from_block |-> w.connections[i].from_block,
              from_output |-> w.connections[i].from_output,
              to_block |-> w.connections[i].to_block,
              to_input |-> w.connections[i].to_input]]]

\* Workflow.to_dict: the plain structure; a block's type is written as the enum's value
to_dict(w) ==
    [name |-> w.name,
     blocks |->
         [i \in DOMAIN w.blocks |->
             [id |-> w.blocks[i].block_id,
              type |-> BlockType[w.blocks[i].block_type],
              parameters |-> w.blocks[i].parameters]],
     connections |->
         [i \in DOMAIN w.connections |->
             [from_block |-> w.connections[i].from_block,
              from_output |-> w.connections[i].from_output,
              to_block |-> w.connections[i].to_block,
              to_input |-> w.connections[i].to_input]]]

\* BlockType(value): the member with that value; ValueError when there is none
BlockTypeOf(value) ==
    IF \E m \in DOMAIN BlockType : BlockType[m] = value
    THEN [raised |-> FALSE,
          member |-> CHOOSE m \in DOMAIN BlockType : BlockType[m] = value]
    ELSE [raised |-> TRUE, member |-> None]

\* for param_name, param_value in parameters.items(): set_block_parameter(...)
RECURSIVE SetParameters(_, _, _, _)
SetParameters(bs, block_id, parameters, todo) ==
    IF todo = {}
    THEN bs
    ELSE LET pname == CHOOSE k \in todo : TRUE
         IN  SetParameters(
                 set_block_parameter(bs, block_id, pname, parameters[pname]),
                 block_id, parameters, todo \ {pname})

\* from_dict, first loop: add_block, then the block's parameters
RECURSIVE LoadBlocks(_, _)
LoadBlocks(bs, items) ==
    IF items = <<>>
    THEN [raised |-> FALSE, blocks |-> bs]
    ELSE LET block_data == Head(items)
             t == BlockTypeOf(block_data.type)
             added == add_block(bs, t.member, block_data.id)
         IN  IF t.raised \/ added.raised
             THEN [raised |-> TRUE, blocks |-> bs]
             ELSE LoadBlocks(
                      SetParameters(added.blocks, block_data.id,
                                    block_data.parameters,
                                    DOMAIN block_data.parameters),
                      Tail(items))

\* from_dict, second loop: connect
RECURSIVE LoadConnections(_, _, _)
LoadConnections(bs, cs, items) ==
    IF items = <<>>
    THEN [raised |-> FALSE, connections |-> cs]
    ELSE LET conn_data == Head(items)
             r == connect(bs, cs, conn_data.from_block, conn_data.from_output,
                          conn_data.to_block, conn_data.to_input)
         IN  IF r.raised
             THEN [raised |-> TRUE, connections |-> cs]
             ELSE LoadConnections(bs, r.connections, Tail(items))

\* Workflow.from_dict
from_dict(data) ==
    LET wname == IF "name" \in DOMAIN data THEN data.name ELSE "Untitled Workflow"
        loaded == LoadBlocks(<<>>, data.blocks)
        wired == LoadConnections(loaded.blocks, <<>>, data.connections)
    IN  IF loaded.raised \/ wired.raised
        THEN [raised |-> TRUE, name |-> wname, blocks |-> <<>>, connections |-> <<>>]
        ELSE [raised |-> FALSE, name |-> wname, blocks |-> loaded.blocks,
              connections |-> wired.connections]

----------------------------------------------------------------------------
(* WorkflowEngine._topological_sort                                        *)

\* graph[block_id]: the to_block of every connection leaving block_id, in list order
Graph(bs, cs) ==
    [b \in Keys(bs) |->
        LET out == SelectSeq(cs, LAMBDA conn : conn.from_block = b)
        IN  [i \in DOMAIN out |-> out[i].to_block]]

\* in_degree[block_id]: the number of connections entering block_id
InDegree(bs, cs) ==
    [b \in Keys(bs) |->
        Len(SelectSeq(cs, LAMBDA conn : conn.to_block = b))]

\* mutant: a neighbour is enqueued at every decrement that leaves it >= 0
RECURSIVE Relax_every(_, _, _)
Relax_every(nbrs, in_degree, queue) ==
    IF nbrs = <<>>
    THEN [in_degree |-> in_degree, queue |-> queue]
    ELSE LET n == Head(nbrs)
             d == in_degree[n] - 1
         IN  Relax_every(Tail(nbrs), [in_degree EXCEPT ![n] = d],
                         IF d >= 0 THEN Append(queue, n) ELSE queue)

\* for neighbor in graph[block_id]: decrement, enqueue on zero
RECURSIVE Relax(_, _, _)
Relax(nbrs, in_degree, queue) ==
    IF nbrs = <<>>
    THEN [in_degree |-> in_degree, queue |-> queue]
    ELSE LET n == Head(nbrs)
             d == in_degree[n] - 1
         IN  Relax(Tail(nbrs), [in_degree EXCEPT ![n] = d],
                   IF d = 0 THEN Append(queue, n) ELSE queue)

\* while queue: pop(0), append to result, relax the neighbours
RECURSIVE Kahn(_, _, _, _)
Kahn(graph, in_degree, queue, result) ==
    IF queue = <<>>
    THEN result
    ELSE LET block_id == Head(queue)
             r == Relax(graph[block_id], in_degree, Tail(queue))
         IN  Kahn(graph, r.in_degree, r.queue, Append(result, block_id))

\* A connection whose endpoint is not a key of blocks: graph[...] raises KeyError
Dangling(bs, cs) ==
    \E i \in DOMAIN cs :
        cs[i].from_block \notin Keys(bs) \/ cs[i].to_block \notin Keys(bs)

\* mutant: the blocks in insertion order, whatever the connections
topological_sort_unsorted(bs, cs) == KeySeq(bs)

\* mutant: the partial order is returned when a cycle keeps blocks out of it
topological_sort_partial(bs, cs) ==
    LET in_degree == InDegree(bs, cs)
        queue == SelectSeq(KeySeq(bs), LAMBDA b : in_degree[b] = 0)
    IN  Kahn(Graph(bs, cs), in_degree, queue, <<>>)

\* mutant: the queue is a stack, queue.pop() takes the block enqueued last
RECURSIVE Kahn_lifo(_, _, _, _)
Kahn_lifo(graph, in_degree, queue, result) ==
    IF queue = <<>>
    THEN result
    ELSE LET block_id == queue[Len(queue)]
             r == Relax(graph[block_id], in_degree,
                        SubSeq(queue, 1, Len(queue) - 1))
         IN  Kahn_lifo(graph, r.in_degree, r.queue, Append(result, block_id))

topological_sort_lifo(bs, cs) ==
    LET in_degree == InDegree(bs, cs)
        queue == SelectSeq(KeySeq(bs), LAMBDA b : in_degree[b] = 0)
        result == Kahn_lifo(Graph(bs, cs), in_degree, queue, <<>>)
    IN  IF Len(result) # Len(bs) THEN <<>> ELSE result

\* mutant: a block is scheduled once for each of its incoming connections
topological_sort_per_edge(bs, cs) ==
    LET in_degree == InDegree(bs, cs)
        queue == SelectSeq(KeySeq(bs), LAMBDA b : in_degree[b] = 0)
        result == Kahn(Graph(bs, cs), in_degree, queue, <<>>)
    IN  IF Len(result) # Len(bs)
        THEN <<>>
        ELSE SelectSeq(result, LAMBDA b : in_degree[b] = 0)
                 \o [i \in DOMAIN cs |-> cs[i].to_block]

topological_sort(bs, cs) ==
    LET in_degree == InDegree(bs, cs)
        queue == SelectSeq(KeySeq(bs), LAMBDA b : in_degree[b] = 0)
        result == Kahn(Graph(bs, cs), in_degree, queue, <<>>)
    IN  IF Len(result) # Len(bs) THEN <<>> ELSE result

----------------------------------------------------------------------------
(* WorkflowEngine._execute_block and WorkflowEngine.execute                *)

\* mutant: an output port the producer did not return falls back to "data"
RoutedValue_fallback(res, conn) ==
    IF conn.from_block \in DOMAIN res
    THEN IF conn.from_output \in DOMAIN res[conn.from_block]
         THEN res[conn.from_block][conn.from_output]
         ELSE Get(res[conn.from_block], "data")
    ELSE None

\* self.results.get(conn.from_block, {}).get(conn.from_output)
RoutedValue(res, conn) ==
    IF conn.from_block \in DOMAIN res
    THEN Get(res[conn.from_block], conn.from_output)
    ELSE None

\* mutant: the block's inputs are emptied before the connections are bound
RECURSIVE BindFrom(_, _, _)
BindFrom(block, cs, res) ==
    IF cs = <<>>
    THEN block
    ELSE LET conn == Head(cs)
         IN  BindFrom(
                 IF conn.to_block = block.block_id
                 THEN set_input(block, conn.to_input, RoutedValue(res, conn))
                 ELSE block,
                 Tail(cs), res)

BindInputs_cleared(block, cs, res) ==
    BindFrom([block EXCEPT !.inputs = EmptyMap], cs, res)

\* for conn in connections: if conn.to_block == block_id: block.set_input(...)
RECURSIVE BindInputs(_, _, _)
BindInputs(block, cs, res) ==
    IF cs = <<>>
    THEN block
    ELSE LET conn == Head(cs)
         IN  BindInputs(
                 IF conn.to_block = block.block_id
                 THEN set_input(block, conn.to_input, RoutedValue(res, conn))
                 ELSE block,
                 Tail(cs), res)

\* the entry appended before block.execute()
ExecutingEntry(block) ==
    [block_id |-> block.block_id, block_type |-> BlockType[block.block_type],
     status |-> "executing"]

\* execution_log[-1]['status'] = 'success'; ['result_keys'] = list(result.keys())
SuccessEntry(entry, keys) ==
    [block_id |-> entry.block_id, block_type |-> entry.block_type,
     status |-> "success", result_keys |-> keys]

\* execution_log[-1]['status'] = 'error'; ['error'] = str(e)
ErrorEntry(entry, error) ==
    [block_id |-> entry.block_id, block_type |-> entry.block_type,
     status |-> "error", error |-> error]

\* mutant: the status is written to the first entry of the log
SetLast_first(log, entry) == [log EXCEPT ![1] = entry]

SetLast(log, entry) == [log EXCEPT ![Len(log)] = entry]

NoReport == [status |-> "none"]

\* the report of execute() when the order is empty
CycleReport ==
    [status |-> "error", message |-> "Workflow has cycles or is invalid"]

SuccessReport(res, log) ==
    [status |-> "success", results |-> res, execution_log |-> log]

ErrorReport(message, log) ==
    [status |-> "error", message |-> message, execution_log |-> log]

\* mutant: best effort, the loop goes on after a block raised
LoopStep_continue(block_raised, i, n) ==
    IF i < n THEN "next"
    ELSE IF block_raised THEN "return_error"
    ELSE "return_success"

\* mutant: the loop stops one block early
LoopStep_short(block_raised, i, n) ==
    IF block_raised THEN "return_error"
    ELSE IF i >= n - 1 THEN "return_success"
    ELSE "next"

\* execute(): what follows block i of n: the except clause returns the error report,
\* the end of the for loop returns the success report
LoopStep(block_raised, i, n) ==
    IF block_raised THEN "return_error"
    ELSE IF i = n THEN "return_success"
    ELSE "next"

\* WorkflowEngine.get_block_result
get_block_result(res, block_id) == Get(res, block_id)

\* no container object followed, no address bound, no caller
NoObjects == <<>>
Unbound == [execution_log |-> 0, results |-> 0]
NoCallers == <<>>

\* no statistics call is under way; a call that has not returned yet
NoCall == [fn |-> "none"]
NotReturned == [status |-> "pending"]

\* the messages of the exceptions that leave an API call
UnknownBlockType == "Unknown block type"
BlockNotFound == "Block not found in workflow"
KeyError == "KeyError"

----------------------------------------------------------------------------
(* The state machine                                                       *)

Init ==
    /\ name \in Names
    /\ blocks = <<>>
    /\ connections = <<>>
    /\ execution_log = <<>>
    /\ results = EmptyMap
    /\ pc = "idle"
    /\ execution_order = <<>>
    /\ idx = 0
    /\ report = NoReport
    /\ raised = None
    /\ calls = 0
    /\ call = NoCall
    /\ ret = NotReturned
    /\ heap = NoObjects
    /\ self_at = Unbound
    /\ callers = NoCallers

engineVars == <<execution_log, results, pc, execution_order, idx>>

\* the container objects and the locals of several callers, followed only where
\* the identity of the engine's containers matters
objectVars == <<heap, self_at, callers>>

\* the statistics engines are not part of a workflow call
statsVars == <<call, ret, objectVars>>

\* every API call starts at an idle engine and is counted
CallStart ==
    /\ pc = "idle"
    /\ calls < MaxCalls
    /\ calls' = calls + 1

\* a call other than execute() returns no report
NotExecute == report' = NoReport

AddBlock(block_type, block_id) ==
    /\ UNCHANGED statsVars
    /\ CallStart
    /\ LET r == add_block(blocks, block_type, block_id)
       IN  /\ blocks' = r.blocks
           /\ raised' = IF r.raised THEN UnknownBlockType ELSE None
    /\ NotExecute
    /\ UNCHANGED <<name, connections, engineVars>>

RemoveBlock(block_id) ==
    /\ UNCHANGED statsVars
    /\ CallStart
    /\ LET r == remove_block(blocks, connections, block_id)
       IN  /\ blocks' = r.blocks
           /\ connections' = r.connections
    /\ raised' = None
    /\ NotExecute
    /\ UNCHANGED <<name, engineVars>>

Connect(from_block, from_output, to_block, to_input) ==
    /\ UNCHANGED statsVars
    /\ CallStart
    /\ Len(connections) < MaxConns
    /\ LET r == connect(blocks, connections, from_block, from_output,
                        to_block, to_input)
       IN  /\ connections' = r.connections
           /\ raised' = IF r.raised THEN BlockNotFound ELSE None
    /\ NotExecute
    /\ UNCHANGED <<name, blocks, engineVars>>

Disconnect(from_block, to_block) ==
    /\ UNCHANGED statsVars
    /\ CallStart
    /\ connections' = disconnect(connections, from_block, to_block)
    /\ raised' = None
    /\ NotExecute
    /\ UNCHANGED <<name, blocks, engineVars>>

SetBlockParameter(block_id, pname, value) ==
    /\ UNCHANGED statsVars
    /\ CallStart
    /\ blocks' = set_block_parameter(blocks, block_id, pname, value)
    /\ raised' = None
    /\ NotExecute
    /\ UNCHANGED <<name, connections, engineVars>>

\* execute(): reset, schedule, and return at once when the order is empty
ExecuteStart ==
    /\ UNCHANGED statsVars
    /\ CallStart
    /\ execution_log' = <<>>
    /\ results' = EmptyMap
    /\ IF Dangling(blocks, connections)
       THEN /\ raised' = KeyError
            /\ report' = NoReport
            /\ UNCHANGED <<pc, execution_order, idx>>
       ELSE LET order == topological_sort(blocks, connections)
            IN  /\ raised' = None
                /\ IF order = <<>>
                   THEN /\ report' = CycleReport
                        /\ UNCHANGED <<pc, execution_order, idx>>
                   ELSE /\ execution_order' = order
                        /\ idx' = 1
                        /\ pc' = "bind"
                        /\ report' = NoReport
    /\ UNCHANGED <<name, blocks, connections>>

\* _execute_block, first half: route the inputs, append the "executing" entry
ExecuteBind ==
    /\ UNCHANGED statsVars
    /\ pc = "bind"
    /\ LET block_id == execution_order[idx]
           block == BindInputs(Lookup(blocks, block_id), connections, results)
       IN  /\ blocks' = DictSet(blocks, block_id, block)
           /\ execution_log' = Append(execution_log, ExecutingEntry(block))
    /\ pc' = "invoke"
    /\ UNCHANGED <<name, connections, results, execution_order, idx, report,
                   raised, calls>>

\* _execute_block, second half: block.execute(), then the loop of execute()
ExecuteInvoke ==
    /\ UNCHANGED statsVars
    /\ pc = "invoke"
    /\ LET block_id == execution_order[idx]
           r == Block_execute(Lookup(blocks, block_id))
           entry == execution_log[Len(execution_log)]
           step == LoopStep(r.raised, idx, Len(execution_order))
       IN  /\ IF r.raised
              THEN /\ execution_log' =
                          SetLast(execution_log, ErrorEntry(entry, r.error))
                   /\ UNCHANGED results
              ELSE /\ results' = (block_id :> r.out) @@ results
                   /\ execution_log' =
                          SetLast(execution_log, SuccessEntry(entry, r.keys))
           /\ IF step = "next"
              THEN /\ idx' = idx + 1
                   /\ pc' = "bind"
                   /\ UNCHANGED <<report, execution_order>>
              ELSE /\ report' = IF step = "return_error"
                                THEN ErrorReport(r.error, execution_log')
                                ELSE SuccessReport(results', execution_log')
                   /\ pc' = "idle"
                   /\ execution_order' = <<>>
                   /\ idx' = 0
    /\ UNCHANGED <<name, blocks, connections, raised, calls>>

Next ==
    \/ \E t \in AddedTypes, b \in BlockIds : AddBlock(t, b)
    \/ \E b \in BlockIds : RemoveBlock(b)
    \/ \E f \in BlockIds, fo \in OutPorts, t \in BlockIds, ti \in InPorts :
           Connect(f, fo, t, ti)
    \/ \E f \in BlockIds, t \in BlockIds : Disconnect(f, t)
    \/ \E b \in BlockIds, p \in ParamNames, v \in ParamValues :
           SetBlockParameter(b, p, v)
    \/ ExecuteStart
    \/ ExecuteBind
    \/ ExecuteInvoke

Spec == Init /\ [][Next]_vars

----------------------------------------------------------------------------
(* Graph vocabulary of the properties                                      *)

\* the current Workflow object
TheWorkflow == [name |-> name, blocks |-> blocks, connections |-> connections]

\* the targets of the connections leaving a block of S
Successors(S, cs) ==
    {cs[i].to_block : i \in {j \in DOMAIN cs : cs[j].from_block \in S}}

RECURSIVE Closure(_, _)
Closure(R, cs) ==
    LET grown == R \cup Successors(R, cs)
    IN  IF grown = R THEN R ELSE Closure(grown, cs)

\* the blocks reachable from the set S along one or more connections
ReachableFrom(S, cs) == Closure(Successors(S, cs), cs)

\* some block reaches itself: the connections do not form a DAG
HasCycle(bs, cs) == \E b \in Keys(bs) : b \in ReachableFrom({b}, cs)

\* the position of block id in a sequence of ids (0 when absent)
PosIn(seq, id) ==
    IF \E i \in DOMAIN seq : seq[i] = id
    THEN CHOOSE i \in DOMAIN seq : seq[i] = id
    ELSE 0

\* the ids of the log's entries, in order
LogIds == [i \in DOMAIN execution_log |-> execution_log[i].block_id]

Running == pc \in {"bind", "invoke"}

----------------------------------------------------------------------------
(* C1: during a run, whenever a block's execute() has been invoked (it has *)
(* a log entry), every block with a connection into it was invoked        *)
(* earlier in the same run and completed.                                 *)

C1_UpstreamFirst ==
    Running =>
        \A c \in DOMAIN connections :
            \A j \in DOMAIN execution_log :
                execution_log[j].block_id = connections[c].to_block =>
                    \E i \in 1..(j - 1) :
                        /\ execution_log[i].block_id = connections[c].from_block
                        /\ execution_log[i].status = "success"

\* two connected blocks have both been invoked, against the insertion order
C1_Witness ==
    /\ pc = "invoke"
    /\ Len(execution_log) >= 2
    /\ \E c \in DOMAIN connections :
           /\ connections[c].from_block = execution_log[1].block_id
           /\ connections[c].to_block = execution_log[2].block_id
           /\ PosIn(KeySeq(blocks), execution_log[1].block_id)
                  > PosIn(KeySeq(blocks), execution_log[2].block_id)

(* C2: a report returned for a workflow with a cycle (a self-loop too) has *)
(* status error, results and the log are empty, and no run is ever in     *)
(* progress on a cyclic workflow.                                          *)

C2_CycleRejected ==
    HasCycle(blocks, connections) =>
        /\ ~Running
        /\ report # NoReport =>
               /\ report.status = "error"
               /\ results = EmptyMap
               /\ execution_log = <<>>

\* a cyclic workflow was executed although one of its blocks was ready to run
C2_Witness ==
    /\ report # NoReport
    /\ HasCycle(blocks, connections)
    /\ \E b \in Keys(blocks) : InDegree(blocks, connections)[b] = 0

(* C3: fail-fast.  When execute() returns because a block B raised, the    *)
(* report has status error and carries the log; the log is a prefix of    *)
(* the execution order, with a success entry for every block before B and *)
(* an error entry for B as its last entry; no block after B was invoked:  *)
(* it has no log entry and no result.                                      *)

C3_FailFast ==
    (report # NoReport /\ "execution_log" \in DOMAIN report
            /\ report.status # "success") =>
        LET n == Len(execution_log)
            order == topological_sort(blocks, connections)
        IN  /\ report.status = "error"
            /\ n >= 1 /\ n <= Len(order)
            /\ \A i \in 1..n : execution_log[i].block_id = order[i]
            /\ \A i \in 1..(n - 1) : execution_log[i].status = "success"
            /\ execution_log[n].status = "error"
            /\ DOMAIN results = {order[i] : i \in 1..(n - 1)}
            /\ report.execution_log = execution_log
            /\ pc = "idle"

\* a block raised after another block had completed and before a third one ran
C3_Witness ==
    /\ report # NoReport
    /\ report.status = "error"
    /\ Len(execution_log) >= 2
    /\ Len(blocks) > Len(execution_log)
    /\ execution_log[Len(execution_log)].status = "error"

(* C4: execute() returns the cycle error exactly when the workflow has a  *)
(* cycle; every DAG, the workflow with no blocks included, is scheduled.  *)
(* (Stated as claimed; the code returns the cycle error for the empty     *)
(* workflow.)                                                              *)

C4_CycleErrorIffCycle ==
    report # NoReport =>
        (report = CycleReport <=> HasCycle(blocks, connections))

(* C5: every report with status error carries a message and the execution *)
(* log.  (Stated as claimed, for workflows that hold at least one block;  *)
(* the report of a cyclic workflow has no execution_log.)                 *)

C5_ErrorReportHasLog ==
    (report # NoReport /\ report.status = "error" /\ blocks # <<>>) =>
        {"message", "execution_log"} \subseteq DOMAIN report

(* C6: serialization round trip.  from_dict(to_dict(W)) does not fail and *)
(* has W's name, W's block ids, the same type and parameters for each id, *)
(* and the same connections as 4-tuples with the same multiplicity.       *)

Count(seq, x) == Cardinality({i \in DOMAIN seq : seq[i] = x})

Range(seq) == {seq[i] : i \in DOMAIN seq}

C6_RoundTrip ==
    LET r == from_dict(to_dict(TheWorkflow))
    IN  /\ ~r.raised
        /\ r.name = name
        /\ Keys(r.blocks) = Keys(blocks)
        /\ \A id \in Keys(blocks) :
               /\ Lookup(r.blocks, id).block_type = Lookup(blocks, id).block_type
               /\ Lookup(r.blocks, id).parameters = Lookup(blocks, id).parameters
        /\ \A c \in Range(connections) \cup Range(r.connections) :
               Count(r.connections, c) = Count(connections, c)

\* a workflow with a configured block and the same connection twice
C6_Witness ==
    /\ Len(blocks) >= 2
    /\ \E i \in DOMAIN blocks : blocks[i].parameters # EmptyMap
    /\ Len(connections) = 2
    /\ connections[1] = connections[2]
    /\ ~from_dict(to_dict(TheWorkflow)).raised

(* C7: in every state every connection has both endpoints among the       *)
(* workflow's block ids; a connect call with an unknown endpoint raises   *)
(* and returns the connection list as it was.                             *)

EndpointsPresent ==
    \A i \in DOMAIN connections :
        /\ connections[i].from_block \in Keys(blocks)
        /\ connections[i].to_block \in Keys(blocks)

C7_EndpointsPresent ==
    /\ EndpointsPresent
    /\ \A f \in BlockIds, fo \in OutPorts, t \in BlockIds, ti \in InPorts :
           (f \notin Keys(blocks) \/ t \notin Keys(blocks)) =>
               LET r == connect(blocks, connections, f, fo, t, ti)
               IN  r.raised /\ r.connections = connections

\* a connect call failed on a workflow that holds connections
C7_Witness ==
    /\ raised = BlockNotFound
    /\ connections # <<>>
    /\ Len(blocks) < Cardinality(BlockIds)

(* C8: a run's outcome (report, results, log) is the outcome of a first   *)
(* run of the same blocks, parameters and connections on blocks that hold *)
(* no input yet: nothing of an earlier run is left in it.  (Stated as     *)
(* claimed; Block.inputs is never cleared, so an input bound in an        *)
(* earlier run is still there after the connection was removed.)          *)

\* the blocks as configured, before any run bound an input
FreshBlocks(bs) == [i \in DOMAIN bs |-> [bs[i] EXCEPT !.inputs = EmptyMap]]

\* the blocks order[i..] run one after the other, as execute() runs them
RECURSIVE RunFrom(_, _, _, _, _, _)
RunFrom(bs, cs, order, i, res, log) ==
    IF i > Len(order)
    THEN [report |-> SuccessReport(res, log), results |-> res, log |-> log]
    ELSE LET block == BindInputs(Lookup(bs, order[i]), cs, res)
             r == Block_execute(block)
             entry == ExecutingEntry(block)
         IN  IF r.raised
             THEN LET failed == Append(log, ErrorEntry(entry, r.error))
                  IN  [report |-> ErrorReport(r.error, failed),
                       results |-> res, log |-> failed]
             ELSE RunFrom(DictSet(bs, block.block_id, block), cs, order, i + 1,
                          (block.block_id :> r.out) @@ res,
                          Append(log, SuccessEntry(entry, r.keys)))

\* execute() on a new engine over blocks that never ran
FirstRun(bs, cs) ==
    LET order == topological_sort(bs, cs)
    IN  IF order = <<>>
        THEN [report |-> CycleReport, results |-> EmptyMap, log |-> <<>>]
        ELSE RunFrom(FreshBlocks(bs), cs, order, 1, EmptyMap, <<>>)

C8_RunFromScratch ==
    report # NoReport =>
        LET first == FirstRun(blocks, connections)
        IN  /\ report = first.report
            /\ results = first.results
            /\ execution_log = first.log

(* C9: a block whose input port is the target of two connections is never *)
(* run: the second connect fails, or execution does not start, or the     *)
(* block's execute() is never invoked, so it has no finished log entry.   *)
(* (Stated as claimed; connect accepts the second connection and the      *)
(* block runs with the value bound last.)                                 *)

DuplicateTargets ==
    {connections[i].to_block : i \in
        {k \in DOMAIN connections :
            \E j \in DOMAIN connections :
                /\ j # k
                /\ connections[j].to_block = connections[k].to_block
                /\ connections[j].to_input = connections[k].to_input}}

C9_DuplicateInputRejected ==
    (Running \/ report # NoReport) =>
        \A i \in DOMAIN execution_log :
            execution_log[i].status \in {"success", "error"} =>
                execution_log[i].block_id \notin DuplicateTargets

(* C10: when execute() returns status success, results has an entry for   *)
(* exactly the workflow's block ids, each the outputs the block's         *)
(* execute() returned, and the log has exactly one entry per block, in    *)
(* execution order, each with status success and the output names.        *)

C10_SuccessComplete ==
    (report # NoReport /\ report.status = "success") =>
        /\ DOMAIN results = Keys(blocks)
        /\ LogIds = topological_sort(blocks, connections)
        /\ Len(execution_log) = Len(blocks)
        /\ \A i \in DOMAIN execution_log :
               LET entry == execution_log[i]
                   out == Block_execute(Lookup(blocks, entry.block_id))
               IN  /\ entry.status = "success"
                   /\ "result_keys" \in DOMAIN entry
                   /\ Range(entry.result_keys) = DOMAIN results[entry.block_id]
                   /\ ~out.raised
                   /\ results[entry.block_id] = out.out
                   /\ entry.result_keys = out.keys
        /\ report.results = results
        /\ report.execution_log = execution_log

\* a run of three blocks, one of them fed by another, succeeded
C10_Witness ==
    /\ report # NoReport
    /\ report.status = "success"
    /\ Len(blocks) = 3
    /\ connections # <<>>

(* C11: execute() never propagates an exception: no call leaves the       *)
(* KeyError of _topological_sort behind, a run in progress has raised     *)
(* nothing, and every report execute() returned has the top-level status  *)
(* success or error.                                                       *)

C11_NeverPropagates ==
    /\ raised # KeyError
    /\ Running => raised = None
    /\ report # NoReport =>
           /\ raised = None
           /\ report.status \in {"success", "error"}

\* a run whose first block raised returned a report, after a block that
\* had been connected was removed
C11_Witness ==
    /\ report # NoReport
    /\ report.status = "error"
    /\ Len(execution_log) = 1
    /\ execution_log[1].status = "error"
    /\ connections = <<>>
    /\ Len(blocks) < calls - 3

(* C12: after a run that failed at block B (B has the error log entry),   *)
(* the report has status error, every block with a success log entry ran  *)
(* before B and get_block_result returns its stored outputs (what its     *)
(* execute() returned), and get_block_result returns None for B and for   *)
(* every block after B in the execution order.                            *)

C12_PartialResults ==
    (report # NoReport
            /\ \E i \in DOMAIN execution_log : execution_log[i].status = "error") =>
        LET order == topological_sort(blocks, connections)
            k == CHOOSE i \in DOMAIN execution_log :
                     execution_log[i].status = "error"
            B == execution_log[k].block_id
        IN  /\ report.status = "error"
            /\ B = order[k]
            /\ \A i \in DOMAIN execution_log :
                   execution_log[i].status = "success" =>
                       LET id == execution_log[i].block_id
                       IN  /\ i < k
                           /\ id \in DOMAIN results
                           /\ get_block_result(results, id)
                                  = Block_execute(Lookup(blocks, id)).out
            /\ \A i \in k..Len(order) :
                   /\ order[i] \notin DOMAIN results
                   /\ get_block_result(results, order[i]) = None

\* a run failed at its second block and a third block was never reached
C12_Witness ==
    /\ report # NoReport
    /\ report.status = "error"
    /\ Len(execution_log) = 2
    /\ Len(blocks) = 3
    /\ execution_log[1].block_id \in DOMAIN results
    /\ get_block_result(results, execution_log[1].block_id).data = "raw"
    /\ get_block_result(results, execution_log[2].block_id) = None

(* C14: create_block fails for every tag without an entry in              *)
(* BLOCK_REGISTRY, and add_block with such a tag fails and returns the    *)
(* blocks as they were (it never touches the connections); for every      *)
(* registered tag create_block returns a block of that type and id.       *)

C14_UnknownTypeRejected ==
    /\ \A i \in DOMAIN blocks : blocks[i].block_type \in BLOCK_REGISTRY
    /\ \A t \in DOMAIN BlockType, b \in BlockIds :
           LET made == create_block(t, b)
           IN  IF t \in BLOCK_REGISTRY
               THEN /\ ~made.raised
                    /\ made.block.block_type = t
                    /\ made.block.block_id = b
               ELSE /\ made.raised
                    /\ made.block = None
                    /\ add_block(blocks, t, b) = [raised |-> TRUE, blocks |-> blocks]

\* add_block failed on a workflow that holds blocks and a connection
C14_Witness ==
    /\ raised = UnknownBlockType
    /\ Len(blocks) >= 2
    /\ connections # <<>>

----------------------------------------------------------------------------
(* The same operations on two blocks, with both output names of           *)
(* LoadCSVBlock ("data", "metadata") as the from_output of connect.       *)

LoadOutPorts == {"data", "metadata"}
TwoBlockIds == {"b1", "b2"}

\* connect takes any string as from_output: "result" is an output of the test
\* blocks (TTestBlock, ABTestBlock) that no block of AddedTypes returns
UnreturnedPort == "result"
ConnectedOutPorts == LoadOutPorts \cup {UnreturnedPort}

NextPorts ==
    \/ \E t \in AddedTypes, b \in TwoBlockIds : AddBlock(t, b)
    \/ \E b \in TwoBlockIds : RemoveBlock(b)
    \/ \E f \in TwoBlockIds, fo \in ConnectedOutPorts, t \in TwoBlockIds,
          ti \in InPorts :
           Connect(f, fo, t, ti)
    \/ \E f \in TwoBlockIds, t \in TwoBlockIds : Disconnect(f, t)
    \/ \E b \in TwoBlockIds, p \in ParamNames, v \in ParamValues :
           SetBlockParameter(b, p, v)
    \/ ExecuteStart
    \/ ExecuteBind
    \/ ExecuteInvoke

SpecPorts == Init /\ [][NextPorts]_vars

(* C20: at the moment the engine invokes a block's execute(), for every   *)
(* connection targeting the block the producer has completed in this run  *)
(* (its outputs are in results) and the target's input port holds the     *)
(* value the producer returned for the connection's output port.          *)
(* (Stated as claimed; with two connections into one input port the port  *)
(* holds the value bound last, not the value of the first connection.)    *)

C20_InputsBound ==
    pc = "invoke" =>
        LET block == Lookup(blocks, execution_order[idx])
        IN  \A c \in DOMAIN connections :
                connections[c].to_block = block.block_id =>
                    /\ connections[c].from_block \in DOMAIN results
                    /\ connections[c].to_input \in DOMAIN block.inputs
                    /\ block.inputs[connections[c].to_input]
                           = Get(results[connections[c].from_block],
                                 connections[c].from_output)

----------------------------------------------------------------------------
(* One block of any registered class, with any part of its declared       *)
(* parameters configured and its input bound or not, run by the engine.   *)

\* the names a class declares, and those it declares required
Declared(block_type) ==
    {PARAMETERS[block_type][i].name : i \in DOMAIN PARAMETERS[block_type]}

Required(block_type) ==
    {PARAMETERS[block_type][i].name : i \in
        {j \in DOMAIN PARAMETERS[block_type] :
            PARAMETERS[block_type][j].required}}

\* the values a parameter is configured with: each is one the block accepts
ConfiguredValues(block_type, pname) ==
    CASE pname = "file_path" -> ReadableFiles
      [] pname = "operator" -> {"==", ">"}
      [] pname = "method" ->
             IF block_type = "HANDLE_MISSING" THEN {"drop"} ELSE {"pearson"}
      [] pname = "metric_type" -> {"continuous"}
      [] pname = "value" -> {"1"}
      [] pname \in {"group1", "group2"} -> {"A"}
      [] OTHER -> {"col"}

AllConfiguredValues ==
    UNION {ConfiguredValues(t, p) : t \in BLOCK_REGISTRY,
           p \in UNION {Declared(k) : k \in BLOCK_REGISTRY}}

\* the parameter dicts over the names S of a block of the class
Configurations(block_type, S) ==
    {f \in [S -> AllConfiguredValues] :
        \A p \in S : f[p] \in ConfiguredValues(block_type, p)}

InitParams ==
    /\ name \in Names
    /\ \E t \in BLOCK_REGISTRY :
       \E S \in SUBSET Declared(t) :
       \E params \in Configurations(t, S) :
       \E inputs \in {EmptyMap, [data |-> "raw"]} :
           blocks = <<[Block("b1", t) EXCEPT !.parameters = params,
                                             !.inputs = inputs]>>
    /\ connections = <<>>
    /\ execution_log = <<>>
    /\ results = EmptyMap
    /\ pc = "idle"
    /\ execution_order = <<>>
    /\ idx = 0
    /\ report = NoReport
    /\ raised = None
    /\ calls = 0
    /\ call = NoCall
    /\ ret = NotReturned
    /\ heap = NoObjects
    /\ self_at = Unbound
    /\ callers = NoCallers

NextParams ==
    \/ ExecuteStart
    \/ ExecuteBind
    \/ ExecuteInvoke

SpecParams == InitParams /\ [][NextParams]_vars

\* the message names the parameter: it is the KeyError of that key
NamesParameter(message, pname) ==
    /\ pname \in DOMAIN MissingKey
    /\ message = MissingKey[pname]

(* C13: when a block is executed with a parameter its PARAMETERS schema   *)
(* declares required not configured, the run reports status error with an *)
(* error entry for the block and a message naming a missing parameter;    *)
(* the block never completes successfully.  (Stated as claimed;           *)
(* FilterRowsBlock without operator and HandleMissingBlock without method *)
(* return their input, and only the blocks that index self.parameters     *)
(* name the parameter.)                                                    *)

C13_MissingRequiredFails ==
    (report # NoReport /\ Len(blocks) = 1) =>
        LET block == blocks[1]
            missing == Required(block.block_type) \ DOMAIN block.parameters
        IN  missing # {} =>
                /\ report.status = "error"
                /\ block.block_id \notin DOMAIN results
                /\ execution_log[Len(execution_log)].block_id = block.block_id
                /\ execution_log[Len(execution_log)].status = "error"
                /\ \E p \in missing : NamesParameter(report.message, p)

----------------------------------------------------------------------------
(* core/ab_testing.py and core/statistical_tests.py                        *)
(*                                                                         *)
(* A table is seen through its groups: data[group_col].unique() is the    *)
(* sequence of the groups in the order of their first row, and a group is *)
(* its metric sample: its mean and what the normality check makes of it.  *)

\* a float, a NaN, a bool and a None in a field of a result
Float(x) == [kind |-> "float", value |-> x]
NaN == [kind |-> "nan"]
Bool(b) == [kind |-> "bool", value |-> b]
NoValue == [kind |-> "none"]

\* a - b and -a on floats
Minus(a, b) ==
    IF a.kind = "nan" \/ b.kind = "nan" THEN NaN ELSE Float(a.value - b.value)

Negated(a) == IF a.kind = "nan" THEN NaN ELSE Float(0 - a.value)

\* the values of the group column, and a control group no row has
GroupNames == {"A", "B", "C"}
UnknownGroup == "Z"

\* what a sample is to the normality check: fewer than 5000 values with
\* Shapiro p > 0.05 ("bell") or p <= 0.05 ("skewed"), or 5000 values and
\* more ("large"); "empty" is the sample of a group no row has
SampleKinds == {"bell", "skewed", "large"}
Means == {1, 2}

Group(gname, kind, mean) == [name |-> gname, kind |-> kind, mean |-> mean]

\* data[group_col].unique()
unique(groups) == [i \in DOMAIN groups |-> groups[i].name]

\* data[data[group_col] == g][metric_col].dropna()
SampleOf(groups, g) ==
    IF \E i \in DOMAIN groups : groups[i].name = g
    THEN groups[CHOOSE i \in DOMAIN groups : groups[i].name = g]
    ELSE Group(g, "empty", 0)

\* Series.mean(): NaN for the empty sample
Mean(sample) == IF sample.kind = "empty" THEN NaN ELSE Float(sample.mean)

\* scipy.stats on an empty sample: the older releases raise ValueError, the
\* newer ones warn and return NaN
SmallSample == {"raises", "nan"}
ValueError == "ValueError"
KeyErrorGroup == "KeyError"
NeedTwoGroups == "Need at least 2 groups for A/B test"

\* p_norm > 0.05, with the 0.5 taken for 5000 values and more; a NaN p
\* compares False
JudgedNormal(sample) == sample.kind \in {"bell", "large"}

\* stats.levene(a, b) p > 0.05: the table's verdict, and p = 1 for a sample
\* against itself
LeveneHigh(data, a, b) == a = b \/ data.levene = "high"

\* the p-value of a two-sided test: decided by the test, its variance
\* option and the samples, whatever their order; NaN with an empty sample
PValue(test, equal_var, samples) ==
    IF \E x \in samples : x.kind = "empty"
    THEN NaN
    ELSE [kind |-> "float", test |-> test, equal_var |-> equal_var,
          samples |-> {x.name : x \in samples}]

\* a statistics call returned a result, or raised
Return(result) == [status |-> "returned", result |-> result]
Raise(error) == [status |-> "raised", error |-> error]

\* ABTestEngine._two_sample_test
two_sample_test(data, control, variant, scipy) ==
    LET control_data == SampleOf(data.groups, control)
        variant_data == SampleOf(data.groups, variant)
        is_normal == JudgedNormal(control_data) /\ JudgedNormal(variant_data)
        equal_var == LeveneHigh(data, control_data, variant_data)
        test_used == IF is_normal THEN "t-test" ELSE "Mann-Whitney U"
        lift_absolute == Minus(Mean(variant_data), Mean(control_data))
        effect_size == IF is_normal THEN lift_absolute ELSE NoValue
    IN  IF "empty" \in {control_data.kind, variant_data.kind}
               /\ scipy = "raises"
        THEN Raise(ValueError)
        ELSE Return(
            [test_type |-> test_used,
             n_groups |-> 2,
             control_group |-> control,
             variant_groups |-> <<variant>>,
             p_value |-> PValue(test_used,
                                IF is_normal THEN Bool(equal_var) ELSE NoValue,
                                {control_data, variant_data}),
             effect_size |->
                 IF effect_size.kind = "float" /\ effect_size.value # 0
                 THEN effect_size ELSE NoValue,
             lift |-> [absolute |-> lift_absolute],
             assumptions |->
                 [normality |-> is_normal,
                  equal_variance |->
                      IF is_normal THEN Bool(equal_var) ELSE NoValue]])

\* ABTestEngine._proportion_test: numpy divides by an empty sample's size
\* with a warning, nothing raises
proportion_test(data, control, variant) ==
    LET control_data == SampleOf(data.groups, control)
        variant_data == SampleOf(data.groups, variant)
    IN  Return(
            [test_type |-> "Z-test for proportions",
             n_groups |-> 2,
             control_group |-> control,
             variant_groups |-> <<variant>>,
             p_value |-> PValue("Z-test for proportions", NoValue,
                                {control_data, variant_data}),
             lift |-> [absolute |->
                           Minus(Mean(variant_data), Mean(control_data))]])

\* the per-group entries of the multi-group tests: the lift against control
GroupsInfo(data, control) ==
    [g \in {data.groups[i].name : i \in DOMAIN data.groups} |->
        [lift_absolute |->
            Minus(Mean(SampleOf(data.groups, g)),
                  Mean(SampleOf(data.groups, control)))]]

\* ABTestEngine._multigroup_test: groups_data[str(control)] is a KeyError
\* for a control no row has
multigroup_test(data, control) ==
    IF SampleOf(data.groups, control).kind = "empty"
    THEN Raise(KeyErrorGroup)
    ELSE Return(
            [test_type |-> "ANOVA",
             n_groups |-> Len(data.groups),
             control_group |-> control,
             variant_groups |->
                 SelectSeq(unique(data.groups), LAMBDA g : g # control),
             p_value |-> PValue("ANOVA", NoValue,
                                {data.groups[i] : i \in DOMAIN data.groups}),
             groups |-> GroupsInfo(data, control)])

\* ABTestEngine._multigroup_proportion_test: group_names.index(str(control))
\* is a ValueError for a control no row has
multigroup_proportion_test(data, control) ==
    IF SampleOf(data.groups, control).kind = "empty"
    THEN Raise(ValueError)
    ELSE Return(
            [test_type |-> "Chi-square test",
             n_groups |-> Len(data.groups),
             control_group |-> control,
             variant_groups |->
                 SelectSeq(unique(data.groups), LAMBDA g : g # control),
             p_value |-> PValue("Chi-square test", NoValue,
                                {data.groups[i] : i \in DOMAIN data.groups}),
             groups |-> GroupsInfo(data, control)])

\* ABTestEngine._assess_practical_significance: one entry per observed
\* group other than control
assess_practical_significance(data, control) ==
    [threshold |-> "0.05",
     variants |-> SelectSeq(unique(data.groups), LAMBDA g : g # control)]

\* ABTestEngine._generate_recommendations: texts made from the test's result
generate_recommendations(res) == [made_from |-> res.test_type]

\* mutant: the metric type is not looked at
Dispatch_continuous(n_groups, metric_type) ==
    IF n_groups = 2 THEN "_two_sample_test" ELSE "_multigroup_test"

\* run_ab_test: the test function chosen for the groups and the metric type
Dispatch(n_groups, metric_type) ==
    IF n_groups = 2
    THEN IF metric_type = "continuous"
         THEN "_two_sample_test" ELSE "_proportion_test"
    ELSE IF metric_type = "continuous"
         THEN "_multigroup_test" ELSE "_multigroup_proportion_test"

\* ABTestEngine.run_ab_test
run_ab_test(data, control_group, metric_type, scipy) ==
    LET groups == unique(data.groups)
        n_groups == Len(groups)
    IN  IF n_groups < 2
        THEN Return([error |-> NeedTwoGroups])
        ELSE
        LET control == IF control_group = None THEN groups[1] ELSE control_group
            test == Dispatch(n_groups, metric_type)
            tested ==
                CASE test = "_two_sample_test" ->
                         two_sample_test(data, control, groups[2], scipy)
                  [] test = "_proportion_test" ->
                         proportion_test(data, control, groups[2])
                  [] test = "_multigroup_test" ->
                         multigroup_test(data, control)
                  [] test = "_multigroup_proportion_test" ->
                         multigroup_proportion_test(data, control)
        IN  IF tested.status = "raised"
            THEN tested
            ELSE Return(
                     [practical_significance |->
                          assess_practical_significance(data, control),
                      recommendations |->
                          generate_recommendations(tested.result)]
                     @@ tested.result)

\* StatisticalTests.t_test: the Shapiro p-values are computed and reported,
\* the test is ttest_ind with Levene's verdict whatever they are
t_test(data, group1, group2, scipy) ==
    LET sample1 == SampleOf(data.groups, group1)
        sample2 == SampleOf(data.groups, group2)
        equal_var == LeveneHigh(data, sample1, sample2)
    IN  IF "empty" \in {sample1.kind, sample2.kind} /\ scipy = "raises"
        THEN Raise(ValueError)
        ELSE Return(
            [test |-> "t-test",
             p_value |-> PValue("t-test", Bool(equal_var), {sample1, sample2}),
             effect_size |-> Minus(Mean(sample1), Mean(sample2)),
             assumptions |-> [equal_variance |-> Bool(equal_var)]])

----------------------------------------------------------------------------
(* The statistics calls: a call with its arguments, then its return.      *)

\* the tables: one to three groups in the order of their first row, each
\* with a sample, and Levene's verdict on the table's samples
GroupOrders == {<<"A">>, <<"A", "B">>, <<"B", "A">>, <<"B", "A", "C">>}

DataTables ==
    {[groups |-> [i \in DOMAIN order |-> Group(order[i], kinds[i], means[i])],
      levene |-> levene] :
        order \in GroupOrders,
        kinds \in [1..3 -> SampleKinds],
        means \in [1..3 -> Means],
        levene \in {"low", "high"}}

MetricTypes == {"continuous", "binary"}

ABTestCalls ==
    [fn : {"run_ab_test"}, data : DataTables,
     control_group : {None, "A", "B", UnknownGroup},
     metric_type : MetricTypes, scipy : SmallSample]

TTestCalls ==
    [fn : {"t_test"}, data : DataTables, group1 : {"A", "B"},
     group2 : {"A", "B"}, scipy : SmallSample]

InitTests ==
    /\ name \in Names
    /\ blocks = <<>>
    /\ connections = <<>>
    /\ execution_log = <<>>
    /\ results = EmptyMap
    /\ pc = "idle"
    /\ execution_order = <<>>
    /\ idx = 0
    /\ report = NoReport
    /\ raised = None
    /\ calls = 0
    /\ call \in ABTestCalls \cup TTestCalls
    /\ ret = NotReturned
    /\ heap = NoObjects
    /\ self_at = Unbound
    /\ callers = NoCallers

workflowVars ==
    <<name, blocks, connections, execution_log, results, pc, execution_order,
      idx, report, raised, calls>>

RunABTest ==
    /\ call.fn = "run_ab_test"
    /\ ret = NotReturned
    /\ ret' = run_ab_test(call.data, call.control_group, call.metric_type,
                          call.scipy)
    /\ UNCHANGED <<call, workflowVars, objectVars>>

TTest ==
    /\ call.fn = "t_test"
    /\ ret = NotReturned
    /\ ret' = t_test(call.data, call.group1, call.group2, call.scipy)
    /\ UNCHANGED <<call, workflowVars, objectVars>>

NextTests ==
    \/ RunABTest
    \/ TTest

SpecTests == InitTests /\ [][NextTests]_vars

\* the groups of the call's table, and whether a row has group g
Observed == {call.data.groups[i].name : i \in DOMAIN call.data.groups}

ABTestDone == call.fn = "run_ab_test" /\ ret # NotReturned

(* C15: run_ab_test dispatches on the number of observed groups and the   *)
(* metric type: 2 groups and continuous give the two-sample test (t-test  *)
(* or Mann-Whitney U), 2 groups and binary the proportion z-test, more    *)
(* groups and continuous ANOVA, more groups and binary chi-square, the    *)
(* multi-group results with a lift against control for every group; each  *)
(* result carries practical_significance and recommendations.  With the   *)
(* default control or an observed one the call returns such a result.     *)

C15_Dispatch ==
    (ABTestDone /\ Len(call.data.groups) >= 2) =>
        LET n == Len(call.data.groups)
            continuous == call.metric_type = "continuous"
        IN  /\ call.control_group \in Observed \cup {None} =>
                   ret.status = "returned"
            /\ ret.status = "returned" =>
                   /\ {"test_type", "practical_significance",
                       "recommendations"} \subseteq DOMAIN ret.result
                   /\ (n = 2 /\ continuous) =>
                          ret.result.test_type \in {"t-test", "Mann-Whitney U"}
                   /\ (n = 2 /\ ~continuous) =>
                          ret.result.test_type = "Z-test for proportions"
                   /\ (n > 2 /\ continuous) =>
                          ret.result.test_type = "ANOVA"
                   /\ (n > 2 /\ ~continuous) =>
                          ret.result.test_type = "Chi-square test"
                   /\ n = 2 => "lift" \in DOMAIN ret.result
                   /\ n > 2 =>
                          /\ "groups" \in DOMAIN ret.result
                          /\ DOMAIN ret.result.groups = Observed

\* a binary metric over three groups was tested with chi-square
C15_Witness ==
    /\ ABTestDone
    /\ ret.status = "returned"
    /\ Len(call.data.groups) = 3
    /\ call.metric_type = "binary"
    /\ ret.result.test_type = "Chi-square test"
    /\ "recommendations" \in DOMAIN ret.result

(* C16: in run_ab_test the control group defaults to the first group      *)
(* encountered; with a control group that is not among the observed       *)
(* groups the call fails and produces no test result.  (Stated as         *)
(* claimed; the control group is never checked against the groups.)       *)

C16_ControlGroup ==
    (ABTestDone /\ Len(call.data.groups) >= 2) =>
        /\ call.control_group = None =>
               /\ ret.status = "returned"
               /\ ret.result.control_group = call.data.groups[1].name
        /\ call.control_group \notin Observed \cup {None} =>
               ret.status = "raised"

(* C17: in a 2-group A/B test, for either choice of control the variant   *)
(* is the other observed group, lift.absolute is mean(variant) minus      *)
(* mean(control), and with the other group as control lift.absolute has   *)
(* the opposite sign and the p-value is the same.  (Stated as claimed;    *)
(* the variant is always the second group encountered.)                   *)

C17_SwapControl ==
    (ABTestDone /\ Len(call.data.groups) = 2
            /\ call.control_group \in Observed) =>
        LET control == call.control_group
            other == CHOOSE g \in Observed : g # control
            swapped == run_ab_test(call.data, other, call.metric_type,
                                   call.scipy)
        IN  /\ ret.status = "returned"
            /\ swapped.status = "returned"
            /\ ret.result.variant_groups = <<other>>
            /\ ret.result.lift.absolute =
                   Minus(Mean(SampleOf(call.data.groups, other)),
                         Mean(SampleOf(call.data.groups, control)))
            /\ swapped.result.lift.absolute =
                   Negated(ret.result.lift.absolute)
            /\ swapped.result.p_value = ret.result.p_value

(* C18: two-sample test selection, for StatisticalTests.t_test and for    *)
(* the two-sample test of run_ab_test, on two observed groups: when both  *)
(* samples are judged normal a t-test is run, pooled if Levene p > 0.05   *)
(* and Welch otherwise; when either is judged non-normal, Mann-Whitney U  *)
(* is selected and no parametric effect size is reported.  (Stated as     *)
(* claimed; t_test runs the t-test whatever the Shapiro p-values are.)    *)

C18_TestSelection ==
    LET two_sample ==
            \/ call.fn = "t_test"
            \/ /\ call.fn = "run_ab_test"
               /\ call.metric_type = "continuous"
               /\ call.control_group \in Observed \cup {None}
        first == IF call.fn = "t_test" THEN call.group1
                 ELSE IF call.control_group = None
                      THEN call.data.groups[1].name
                      ELSE call.control_group
        second == IF call.fn = "t_test" THEN call.group2
                  ELSE call.data.groups[2].name
    IN  (two_sample /\ Len(call.data.groups) = 2 /\ ret # NotReturned) =>
            LET sample1 == SampleOf(call.data.groups, first)
                sample2 == SampleOf(call.data.groups, second)
                test == IF call.fn = "t_test" THEN ret.result.test
                        ELSE ret.result.test_type
            IN  /\ ret.status = "returned"
                /\ IF JudgedNormal(sample1) /\ JudgedNormal(sample2)
                   THEN /\ test = "t-test"
                        /\ ret.result.assumptions.equal_variance =
                               Bool(LeveneHigh(call.data, sample1, sample2))
                        /\ ret.result.p_value.equal_var =
                               ret.result.assumptions.equal_variance
                   ELSE /\ test = "Mann-Whitney U"
                        /\ ret.result.effect_size = NoValue

----------------------------------------------------------------------------
(* core/data_profiler.py: DataProfiler._assess_data_quality               *)
(*                                                                         *)
(* A table is seen through what the assessment counts: its rows, its      *)
(* columns, the columns with more than 30% missing values, the rows       *)
(* duplicated() marks and the columns with at most one distinct value.    *)

\* the most rows and the most columns of a table
MaxRows == 3
MaxCols == 8

\* a float that is the quotient num / den, den > 0
Ratio(num, den) == [kind |-> "float", num |-> num, den |-> den]

\* numpy's a / b on counts: NaN (with a warning) when b is 0
Divide(a, b) == IF b = 0 THEN NaN ELSE Ratio(a, b)

\* the tables: duplicated() leaves the first row of each kind unmarked; a
\* table without rows has no column above the missing threshold (NaN > 0.3
\* is False) and no column with more than one value, neither has a table
\* of one row
ProfiledTables ==
    {t \in [rows : 0..MaxRows, columns : 0..MaxCols,
            high_missing : 0..MaxCols, duplicates : 0..MaxRows,
            constant_cols : 0..MaxCols] :
        /\ t.high_missing <= t.columns
        /\ t.constant_cols <= t.columns
        /\ t.duplicates < t.rows \/ (t.rows = 0 /\ t.duplicates = 0)
        /\ t.rows = 0 => t.high_missing = 0
        /\ t.rows <= 1 => t.constant_cols = t.columns}

\* mutant: the score is returned as computed
max0_unfloored(x) == x

\* max(0, x) of Python: x when x > 0 is True, else 0; NaN > 0 is False
max0(x) ==
    IF x.kind = "float" /\ x.num > 0 THEN x ELSE Ratio(0, 1)

\* quality_score: 100 - 10 per high-missing column - 20 * the duplicate
\* fraction - 5 per constant column, then max(0, .)
quality_score(t) ==
    LET fraction == Divide(t.duplicates, t.rows)
        whole == 100 - t.high_missing * 10 - t.constant_cols * 5
        score == IF fraction.kind = "nan" THEN NaN
                 ELSE Ratio(whole * fraction.den - 20 * fraction.num,
                            fraction.den)
    IN  max0(score)

\* DataProfiler._assess_data_quality: one issue per kind of finding
assess_data_quality(t) ==
    LET issues ==
            (IF t.high_missing > 0 THEN {"high_missing_values"} ELSE {})
            \cup (IF t.duplicates > 0 THEN {"duplicate_rows"} ELSE {})
            \cup (IF t.constant_cols > 0 THEN {"constant_columns"} ELSE {})
    IN  Return([quality_score |-> quality_score(t),
                issues |-> issues,
                needs_cleaning |-> issues # {}])

InitQuality ==
    /\ name \in Names
    /\ blocks = <<>>
    /\ connections = <<>>
    /\ execution_log = <<>>
    /\ results = EmptyMap
    /\ pc = "idle"
    /\ execution_order = <<>>
    /\ idx = 0
    /\ report = NoReport
    /\ raised = None
    /\ calls = 0
    /\ call \in [fn : {"_assess_data_quality"}, table : ProfiledTables]
    /\ ret = NotReturned
    /\ heap = NoObjects
    /\ self_at = Unbound
    /\ callers = NoCallers

AssessDataQuality ==
    /\ call.fn = "_assess_data_quality"
    /\ ret = NotReturned
    /\ ret' = assess_data_quality(call.table)
    /\ UNCHANGED <<call, workflowVars, objectVars>>

NextQuality == AssessDataQuality

SpecQuality == InitQuality /\ [][NextQuality]_vars

(* C19: for any table, a table without rows included, the quality score   *)
(* _assess_data_quality returns is a number in [0, 100]: 100 minus 10 per *)
(* high-missing column, 20 times the duplicate fraction and 5 per         *)
(* constant column where that is positive, and 0 otherwise.               *)

C19_ScoreInRange ==
    (call.fn = "_assess_data_quality" /\ ret # NotReturned) =>
        LET t == call.table
            score == ret.result.quality_score
            whole == 100 - 10 * t.high_missing - 5 * t.constant_cols
        IN  /\ ret.status = "returned"
            /\ score.kind = "float"
            /\ score.den > 0
            /\ 0 <= score.num
            /\ score.num <= 100 * score.den
            /\ t.rows > 0 =>
                   IF whole * t.rows - 20 * t.duplicates > 0
                   THEN score.num * t.rows =
                            (whole * t.rows - 20 * t.duplicates) * score.den
                   ELSE score.num = 0

\* a table without rows was scored, and so was one whose deductions exceed 100
C19_Witness ==
    /\ call.fn = "_assess_data_quality"
    /\ ret # NotReturned
    /\ \/ call.table.rows = 0 /\ call.table.columns > 0
       \/ 10 * call.table.high_missing + 5 * call.table.constant_cols > 100

(***************************************************************************)
(* Log entry statuses, _execute_block lines 149-164 and execute 125-139    *)
(***************************************************************************)

StatusAt(log, status) == {i \in DOMAIN log : log[i].status = status}

\* the execution_log a report carries, <<>> for the report without one
ReportLog == IF "execution_log" \in DOMAIN report THEN report.execution_log ELSE <<>>

\* C28: at every point of a run at most one log entry has status executing
\* and it is the last entry of the log; in every report returned by execute()
\* no log entry has status executing, and at most one entry has status error,
\* which is then the last entry.
C28_ExecutingLast ==
    /\ StatusAt(execution_log, "executing") \subseteq {Len(execution_log)}
    /\ StatusAt(execution_log, "error") \subseteq {Len(execution_log)}
    /\ pc = "invoke" <=> StatusAt(execution_log, "executing") # {}
    /\ report # NoReport =>
          /\ StatusAt(ReportLog, "executing") = {}
          /\ StatusAt(ReportLog, "error") \subseteq {Len(ReportLog)}
          /\ report.status = "success" => StatusAt(ReportLog, "error") = {}

\* a report whose log ends with its only error entry, after a success entry
C28_Witness ==
    /\ report # NoReport
    /\ Len(ReportLog) >= 2
    /\ StatusAt(ReportLog, "error") = {Len(ReportLog)}
    /\ \E b \in Keys(blocks) : pc = "idle" /\ Lookup(blocks, b).inputs # EmptyMap

----------------------------------------------------------------------------
(* C27: add_block with a block_id that is already present does not fail:   *)
(* it replaces the existing block with a fresh block of the given type     *)
(* (empty parameters and inputs), keeps the number of blocks unchanged,    *)
(* and leaves every existing connection to or from that id in place.       *)

C27_AddExistingReplaces ==
    [][\A t \in AddedTypes \cap BLOCK_REGISTRY, b \in Keys(blocks) :
          AddBlock(t, b) =>
             /\ raised' = None
             /\ Len(blocks') = Len(blocks)
             /\ KeySeq(blocks') = KeySeq(blocks)
             /\ Lookup(blocks', b).block_type = t
             /\ Lookup(blocks', b).parameters = EmptyMap
             /\ Lookup(blocks', b).inputs = EmptyMap
             /\ \A o \in Keys(blocks) \ {b} :
                   Lookup(blocks', o) = Lookup(blocks, o)
             /\ connections' = connections]_vars

\* the log of the last run names b with the type it had then, b was replaced
\* by a block of another type in the fifth call, and its connection is there
C27_Witness ==
    /\ calls = 5
    /\ raised = None
    /\ \E i \in DOMAIN execution_log :
          /\ execution_log[i].block_id \in Keys(blocks)
          /\ execution_log[i].block_type #
                BlockType[Lookup(blocks, execution_log[i].block_id).block_type]
          /\ Lookup(blocks, execution_log[i].block_id).inputs = EmptyMap
          /\ \E j \in DOMAIN connections :
                execution_log[i].block_id \in
                   {connections[j].from_block, connections[j].to_block}

----------------------------------------------------------------------------
\* the connections into a block's input port, by position in the list
Into(cs, block_id, port) ==
    {i \in DOMAIN cs : cs[i].to_block = block_id /\ cs[i].to_input = port}

\* the producer completed in this run without returning the connection's port
PortNotReturned(res, conn) ==
    /\ conn.from_block \in DOMAIN res
    /\ conn.from_output \notin DOMAIN res[conn.from_block]

(* C26: connect does not validate port names, and routing never fails:     *)
(* when a connection names an output port that the producing block did not *)
(* return, the target's input port is bound to the missing value (None)    *)
(* and the target block's execute() is still invoked; any failure arises   *)
(* only inside the target block.                                           *)

C26_PortsNotValidated ==
    /\ \A f \in Keys(blocks), t \in Keys(blocks), fo \in ConnectedOutPorts,
          ti \in InPorts \cup {UnreturnedPort} :
          LET r == connect(blocks, connections, f, fo, t, ti)
          IN  /\ ~r.raised
              /\ r.connections =
                    Append(connections, Connection(f, fo, t, ti))
    /\ pc = "invoke" =>
          LET block == Lookup(blocks, execution_order[idx])
          IN  /\ execution_log[Len(execution_log)] = ExecutingEntry(block)
              /\ \A i \in DOMAIN connections :
                    /\ connections[i].to_block = block.block_id
                    /\ PortNotReturned(results, connections[i])
                    /\ \A j \in Into(connections, block.block_id,
                                     connections[i].to_input) : j <= i
                    => /\ connections[i].to_input \in DOMAIN block.inputs
                       /\ block.inputs[connections[i].to_input] = None
    /\ report # NoReport /\ report # CycleReport /\ report.status = "error" =>
          LET last == execution_log[Len(execution_log)]
              r == Block_execute(Lookup(blocks, last.block_id))
          IN  /\ r.raised
              /\ last.error = r.error
              /\ report.message = r.error

\* a block is about to be invoked with None bound from a port that its
\* producer, which completed in this run, did not return
C26_Witness ==
    /\ pc = "invoke"
    /\ \E i \in DOMAIN connections :
          /\ connections[i].to_block = execution_order[idx]
          /\ connections[i].from_output = UnreturnedPort
          /\ PortNotReturned(results, connections[i])
          /\ Lookup(blocks, execution_order[idx]).inputs = [data |-> None]

----------------------------------------------------------------------------
(* C21: within one execute() call every block's execute() is invoked at    *)
(* most once and results[block_id] is written at most once and never       *)
(* changed afterwards in that run, for any workflow including those with   *)
(* several parallel connections between the same pair of blocks.           *)

C21_InvokedOnce ==
    [][/\ pc = "bind" /\ pc' = "invoke" =>
             /\ execution_order[idx] \notin Range(LogIds)
             /\ Count(execution_order, execution_order[idx]) = 1
       /\ pc = "invoke" =>
             /\ execution_order[idx] \notin DOMAIN results
             /\ DOMAIN results' \ DOMAIN results \subseteq {execution_order[idx]}
       /\ pc # "idle" =>
             \A id \in DOMAIN results :
                id \in DOMAIN results' /\ results'[id] = results[id]]_vars

\* a finished run of two blocks joined by two parallel connections
C21_Witness ==
    /\ report # NoReport
    /\ report.status = "success"
    /\ Len(report.execution_log) = 2
    /\ Len(connections) = 2
    /\ connections[1].from_block = connections[2].from_block
    /\ connections[1].to_block = connections[2].to_block
    /\ connections[1].from_block # connections[1].to_block
    /\ DOMAIN report.results = Keys(blocks)

----------------------------------------------------------------------------
(* C22: the execution log is append-only during one execute() call: its    *)
(* length never decreases, an entry once it has status success or error is *)
(* never modified or removed, the only status transitions are              *)
(* executing -> success and executing -> error on the most recently        *)
(* appended entry, and the log is emptied only at the start of the next    *)
(* execute() call.                                                         *)

C22_LogAppendOnly ==
    [][execution_log' # execution_log =>
          LET n == Len(execution_log)
          IN  \/ /\ ExecuteStart
                 /\ execution_log' = <<>>
              \/ /\ pc = "bind"
                 /\ Len(execution_log') = n + 1
                 /\ SubSeq(execution_log', 1, n) = execution_log
                 /\ execution_log'[n + 1].status = "executing"
              \/ /\ pc = "invoke"
                 /\ Len(execution_log') = n
                 /\ n > 0
                 /\ SubSeq(execution_log', 1, n - 1) =
                       SubSeq(execution_log, 1, n - 1)
                 /\ execution_log[n].status = "executing"
                 /\ execution_log'[n].status \in {"success", "error"}
                 /\ execution_log'[n].block_id = execution_log[n].block_id]_vars

\* the second entry of a run has just been finished behind a success entry
C22_Witness ==
    /\ report # NoReport
    /\ Len(execution_log) = 2
    /\ execution_log[1].status = "success"
    /\ execution_log[2].status \in {"success", "error"}
    /\ connections # <<>>

----------------------------------------------------------------------------
(* C25: the engine only ever adds or overwrites entries of a block's       *)
(* input-port mapping and never clears it: an input bound during one run   *)
(* stays bound with its old value in every later run unless a connection   *)
(* targeting the same port overwrites it, so after disconnect() the        *)
(* formerly connected block still executes with the value from the earlier *)
(* run.                                                                    *)

C25_InputsNeverCleared ==
    [][/\ \A id \in Keys(blocks) \cap Keys(blocks') :
             (~ \E t \in AddedTypes : AddBlock(t, id)) =>
                LET old == Lookup(blocks, id).inputs
                    new == Lookup(blocks', id).inputs
                IN  \A p \in DOMAIN old :
                       /\ p \in DOMAIN new
                       /\ new[p] # old[p] =>
                             /\ pc = "bind"
                             /\ id = execution_order[idx]
                             /\ Into(connections, id, p) # {}
       /\ pc = "invoke" =>
             LET block == Lookup(blocks, execution_order[idx])
                 r == Block_execute(block)
             IN  /\ blocks' = blocks
                 /\ r.raised <=>
                       execution_log'[Len(execution_log')].status = "error"
                 /\ ~r.raised => results'[block.block_id] = r.out]_vars

\* a block no connection targets is about to be invoked, in a run after the
\* one that bound its input, with the table bound then
C25_Witness ==
    /\ pc = "invoke"
    /\ connections = <<>>
    /\ Lookup(blocks, execution_order[idx]).block_type = "REMOVE_DUPLICATES"
    /\ Lookup(blocks, execution_order[idx]).inputs = [data |-> "raw"]
    /\ ~Block_execute(Lookup(blocks, execution_order[idx])).raised

----------------------------------------------------------------------------
(* The execution order, characterised without running the loop             *)

\* the blocks no connection targets, in insertion order
Seeds(bs, cs) ==
    SelectSeq(KeySeq(bs), LAMBDA b : \A i \in DOMAIN cs : cs[i].to_block # b)

\* the connection that makes block x ready: the last connection into x, in
\* the list, from the predecessor of x that is latest in the order
LastEdge(order, cs, x) ==
    LET into == {i \in DOMAIN cs : cs[i].to_block = x}
        late == CHOOSE i \in into :
                   \A j \in into :
                      PosIn(order, cs[j].from_block) <=
                         PosIn(order, cs[i].from_block)
        same == {i \in into : cs[i].from_block = cs[late].from_block}
    IN  CHOOSE i \in same : \A j \in same : j <= i

\* x becomes ready before y
ReadyBefore(order, cs, x, y) ==
    LET ex == LastEdge(order, cs, x)
        ey == LastEdge(order, cs, y)
        px == PosIn(order, cs[ex].from_block)
        py == PosIn(order, cs[ey].from_block)
    IN  px < py \/ (px = py /\ ex < ey)

\* execute() on the engine as it is: the blocks keep the inputs they hold
NextRun(bs, cs) ==
    LET order == topological_sort(bs, cs)
    IN  IF order = <<>>
        THEN [report |-> CycleReport, results |-> EmptyMap, log |-> <<>>]
        ELSE RunFrom(bs, cs, order, 1, EmptyMap, <<>>)

(* C23: the execution order is a deterministic function of the workflow:   *)
(* zero-in-degree blocks are seeded in block insertion order, a block that *)
(* becomes ready is enqueued FIFO in the order its last incoming edge is   *)
(* discovered, and two execute() calls on an unchanged workflow produce    *)
(* the same sequence of block ids in the log.                              *)

C23_DeterministicOrder ==
    /\ ~Dangling(blocks, connections) =>
          LET order == topological_sort(blocks, connections)
              seeds == Seeds(blocks, connections)
          IN  order # <<>> =>
                 /\ SubSeq(order, 1, Len(seeds)) = seeds
                 /\ \A i \in DOMAIN order, j \in DOMAIN order :
                       Len(seeds) < i /\ i < j =>
                          ReadyBefore(order, connections, order[i], order[j])
    /\ Running => execution_order = topological_sort(blocks, connections)
    /\ report # NoReport =>
          LET again == NextRun(blocks, connections)
          IN  /\ [i \in DOMAIN again.log |-> again.log[i].block_id] = LogIds
              /\ again.report.status = report.status

\* a finished run of three blocks in which the two blocks fed by the first
\* ran in the order of their connections, against their insertion order
C23_Witness ==
    /\ report # NoReport
    /\ Len(execution_log) = 3
    /\ Len(connections) = 2
    /\ connections[1].from_block = LogIds[1]
    /\ connections[2].from_block = LogIds[1]
    /\ connections[1].to_block = LogIds[2]
    /\ connections[2].to_block = LogIds[3]
    /\ PosIn(KeySeq(blocks), LogIds[3]) < PosIn(KeySeq(blocks), LogIds[2])

----------------------------------------------------------------------------
(* Termination.  execute() is one sequential loop: once it has started,    *)
(* the interpreter goes on to the next statement, so the two halves of     *)
(* _execute_block are taken under weak fairness.  The calls of the client  *)
(* (add_block, connect, ..., execute) are under no obligation.             *)

SpecLive ==
    /\ Init
    /\ [][NextPorts]_vars
    /\ WF_vars(ExecuteBind)
    /\ WF_vars(ExecuteInvoke)

\* the blocks the while loop of _topological_sort dequeued, in order, before
\* the length test
Dequeued(bs, cs) ==
    LET in_degree == InDegree(bs, cs)
        queue == SelectSeq(KeySeq(bs), LAMBDA b : in_degree[b] = 0)
    IN  Kahn(Graph(bs, cs), in_degree, queue, <<>>)

DequeuedOnce ==
    ~Dangling(blocks, connections) =>
        LET result == Dequeued(blocks, connections)
        IN  /\ Len(result) <= Len(blocks)
            /\ \A b \in Keys(blocks) : Count(result, b) <= 1
            /\ Range(result) \subseteq Keys(blocks)

(* C30: for every finite workflow, cyclic or not and with or without       *)
(* parallel edges, the scheduling loop of _topological_sort terminates     *)
(* after dequeuing each block at most once, and execute() terminates with  *)
(* a report provided every invoked block's execute() returns or raises.    *)

C30_Terminates ==
    /\ []DequeuedOnce
    /\ Running ~> (pc = "idle" /\ report # NoReport)

\* a run over two parallel connections has returned its report after the
\* second block raised
C30_Witness ==
    /\ pc = "idle"
    /\ report # NoReport
    /\ report.status = "error"
    /\ Len(ReportLog) = 2
    /\ Len(connections) = 2
    /\ connections[1].from_block = connections[2].from_block
    /\ connections[1].to_block = connections[2].to_block
    /\ ~HasCycle(blocks, connections)

----------------------------------------------------------------------------
(***************************************************************************)
(* The engine's containers as objects.  self.execution_log and             *)
(* self.results are names bound to a list and a dict; a report holds the   *)
(* objects themselves, not copies.  heap[a] is the contents of the object  *)
(* at address a, self_at the addresses the two attributes are bound to.    *)
(* A caller is one thread of the client calling execute(); the steps of    *)
(* several callers interleave at block granularity: the start of execute() *)
(* (lines 114-116) and each _execute_block call are one step.              *)
(***************************************************************************)

\* the most execute() calls made on one engine
MaxRuns == 3

\* mutant: the containers the constructor made are emptied in place, .clear()
Rebind_in_place(h, at) ==
    IF at.execution_log \in DOMAIN h
    THEN [heap |-> [h EXCEPT ![at.execution_log] = <<>>,
                             ![at.results] = EmptyMap],
          self_at |-> at]
    ELSE [heap |-> h \o <<<<>>, EmptyMap>>,
          self_at |-> [execution_log |-> Len(h) + 1, results |-> Len(h) + 2]]

\* self.execution_log = []; self.results = {}  (lines 110-111 and 114-115)
Rebind(h, at) ==
    [heap |-> h \o <<<<>>, EmptyMap>>,
     self_at |-> [execution_log |-> Len(h) + 1, results |-> Len(h) + 2]]

\* a log entry with the caller whose call wrote it (the stamp is not in the
\* code: it tells the entries of two calls apart)
Stamp(t, entry) == [by |-> t, entry |-> entry]

Unstamped(log) == [i \in DOMAIN log |-> log[i].entry]

\* a caller's locals outside a call
IdleCaller ==
    [pc |-> "idle", execution_order |-> <<>>, idx |-> 0, own_log |-> <<>>,
     own_results |-> EmptyMap, overlapped |-> FALSE]

\* the report a call returned: the objects it holds by address (0 for a key
\* the report does not have), and what the call itself logged and stored
Returned(t, status, message, at, own_log, own_results, overlapped) ==
    [by |-> t, status |-> status, message |-> message,
     execution_log |-> at.execution_log, results |-> at.results,
     own_log |-> own_log, own_results |-> own_results,
     overlapped |-> overlapped]

\* the workflows the callers run: two or three blocks, at most two connections
WorkflowBlocks ==
    LET b1s == {Block("b1", "LOAD_CSV"),
                set_parameter(Block("b1", "LOAD_CSV"), "file_path", "ok.csv")}
        b2s == {Block("b2", "REMOVE_DUPLICATES"),
                set_parameter(Block("b2", "LOAD_CSV"), "file_path", "ok.csv")}
    IN  {<<x, y>> : x \in b1s, y \in b2s}
            \cup {<<y, x>> : x \in b1s, y \in b2s}

WorkflowConnections ==
    LET conns == {Connection(f, "data", t, "data") : f, t \in TwoBlockIds}
    IN  {<<>>} \cup {<<c>> : c \in conns}
               \cup {<<c, d>> : c, d \in conns}

InitObjects(ids) ==
    /\ name \in Names
    /\ blocks \in WorkflowBlocks
    /\ connections \in WorkflowConnections
    /\ heap = Rebind(NoObjects, Unbound).heap
    /\ self_at = Rebind(NoObjects, Unbound).self_at
    /\ callers = [t \in ids |-> IdleCaller]
    /\ execution_log = <<>>
    /\ results = EmptyMap
    /\ pc = "idle"
    /\ execution_order = <<>>
    /\ idx = 0
    /\ report = NoReport
    /\ raised = None
    /\ calls = 0
    /\ call = NoCall
    /\ ret = <<>>

\* the engine's attributes, read through the addresses they are bound to
Attributes(h, at) ==
    /\ execution_log' = Unstamped(h[at.execution_log])
    /\ results' = h[at.results]

OthersRunning(t) == \E u \in DOMAIN callers \ {t} : callers[u].pc = "running"

\* execute(), lines 114-123: new containers, the order, the cycle report
CallerStart(t) ==
    /\ callers[t].pc = "idle"
    /\ calls < MaxRuns
    /\ calls' = calls + 1
    /\ LET r == Rebind(heap, self_at)
           order == topological_sort(blocks, connections)
           met == [u \in DOMAIN callers |->
                      IF u # t /\ callers[u].pc = "running"
                      THEN [callers[u] EXCEPT !.overlapped = TRUE]
                      ELSE callers[u]]
       IN  /\ heap' = r.heap
           /\ self_at' = r.self_at
           /\ Attributes(r.heap, r.self_at)
           /\ IF order = <<>>
              THEN /\ ret' = Append(ret,
                         Returned(t, "error", CycleReport.message, Unbound,
                                  <<>>, EmptyMap, OthersRunning(t)))
                   /\ report' = CycleReport
                   /\ callers' = met
              ELSE /\ callers' =
                         [met EXCEPT ![t] =
                             [pc |-> "running", execution_order |-> order,
                              idx |-> 1, own_log |-> <<>>,
                              own_results |-> EmptyMap,
                              overlapped |-> OthersRunning(t)]]
                   /\ report' = NoReport
                   /\ UNCHANGED ret
    /\ UNCHANGED <<name, blocks, connections, pc, execution_order, idx,
                   raised, call>>

\* one iteration of the loop of execute(): _execute_block on the containers
\* the attributes are bound to now, then the next block or the report
CallerBlock(t) ==
    /\ callers[t].pc = "running"
    /\ LET me == callers[t]
           block_id == me.execution_order[me.idx]
           block == BindInputs(Lookup(blocks, block_id), connections,
                               heap[self_at.results])
           r == Block_execute(block)
           entry == Stamp(t, IF r.raised
                             THEN ErrorEntry(ExecutingEntry(block), r.error)
                             ELSE SuccessEntry(ExecutingEntry(block), r.keys))
           logged == [heap EXCEPT ![self_at.execution_log] = Append(@, entry)]
           stored == IF r.raised
                     THEN logged
                     ELSE [logged EXCEPT ![self_at.results] =
                                             (block_id :> r.out) @@ @]
           own_log == Append(me.own_log, entry)
           own_results == IF r.raised
                          THEN me.own_results
                          ELSE (block_id :> r.out) @@ me.own_results
           step == LoopStep(r.raised, me.idx, Len(me.execution_order))
       IN  /\ blocks' = DictSet(blocks, block_id, block)
           /\ heap' = stored
           /\ Attributes(stored, self_at)
           /\ IF step = "next"
              THEN /\ callers' = [callers EXCEPT ![t] =
                                     [me EXCEPT !.idx = me.idx + 1,
                                                !.own_log = own_log,
                                                !.own_results = own_results]]
                   /\ UNCHANGED <<ret, report>>
              ELSE /\ callers' = [callers EXCEPT ![t] = IdleCaller]
                   /\ ret' = Append(ret,
                         IF step = "return_error"
                         THEN Returned(t, "error", r.error,
                                       [self_at EXCEPT !.results = 0],
                                       own_log, own_results, me.overlapped)
                         ELSE Returned(t, "success", None, self_at,
                                       own_log, own_results, me.overlapped))
                   /\ report' =
                         IF step = "return_error"
                         THEN ErrorReport(r.error, execution_log')
                         ELSE SuccessReport(results', execution_log')
    /\ UNCHANGED <<name, connections, self_at, pc, execution_order, idx,
                   raised, calls, call>>

\* one caller: the calls are serialized
InitReports == InitObjects({1})

NextReports == CallerStart(1) \/ CallerBlock(1)

SpecReports == InitReports /\ [][NextReports]_vars

\* two callers on the same engine
InitRace == InitObjects({1, 2})

NextRace == \E t \in {1, 2} : CallerStart(t) \/ CallerBlock(t)

SpecRace == InitRace /\ [][NextRace]_vars

----------------------------------------------------------------------------
\* the objects a returned report holds
LogOf(h, r) == h[r.execution_log]
ResultsOf(h, r) == h[r.results]

(* C29: a report returned by an earlier execute() call (its results        *)
(* mapping and its execution_log list) is not altered by any later         *)
(* execute() call on the same engine: each call starts with freshly        *)
(* created results and log containers.                                     *)

C29_ReportsNotAltered ==
    [][/\ \A i \in DOMAIN ret :
             /\ ret[i].execution_log # 0 =>
                   /\ LogOf(heap', ret[i]) = LogOf(heap, ret[i])
                   /\ LogOf(heap', ret[i]) = ret[i].own_log
             /\ ret[i].results # 0 =>
                   /\ ResultsOf(heap', ret[i]) = ResultsOf(heap, ret[i])
                   /\ ResultsOf(heap', ret[i]) = ret[i].own_results
       /\ \A t \in DOMAIN callers :
             CallerStart(t) =>
                /\ self_at'.execution_log \notin DOMAIN heap
                /\ self_at'.results \notin DOMAIN heap
                /\ self_at'.execution_log # self_at'.results
                /\ heap'[self_at'.execution_log] = <<>>
                /\ heap'[self_at'.results] = EmptyMap]_vars

\* a later call has logged a block while the report of an earlier successful
\* call holds its own, different, containers
C29_Witness ==
    /\ Len(ret) >= 1
    /\ ret[1].status = "success"
    /\ Len(LogOf(heap, ret[1])) = 2
    /\ ret[1].execution_log # self_at.execution_log
    /\ ret[1].results # self_at.results
    /\ Len(heap[self_at.execution_log]) >= 1

----------------------------------------------------------------------------
\* the report's log holds an entry the other caller's call wrote, or its
\* results hold a block its own call did not store
Foreign(r) ==
    \/ /\ r.execution_log # 0
       /\ \E i \in DOMAIN LogOf(heap, r) : LogOf(heap, r)[i].by # r.by
    \/ /\ r.results # 0
       /\ DOMAIN ResultsOf(heap, r) \ DOMAIN r.own_results # {}

\* the report's log or results miss an entry its own call wrote
Missing(r) ==
    \/ /\ r.execution_log # 0
       /\ \E i \in DOMAIN r.own_log : r.own_log[i] \notin Range(LogOf(heap, r))
    \/ /\ r.results # 0
       /\ DOMAIN r.own_results \ DOMAIN ResultsOf(heap, r) # {}

(* C24: two execute() calls on the same WorkflowEngine that are            *)
(* interleaved at block granularity instead of serialized race on          *)
(* results/execution_log: there is an interleaving in which a returned     *)
(* report's log or results contains entries produced by the other call, or *)
(* misses entries of its own run.  (The interleaving is the witness; the   *)
(* invariant is the other half, that a report is mixed up only when its    *)
(* call overlapped another one.)                                           *)

C24_MixedOnlyWhenInterleaved ==
    \A i \in DOMAIN ret :
        Foreign(ret[i]) \/ Missing(ret[i]) => ret[i].overlapped

\* both calls returned success; one report's log holds an entry of the other
\* call and misses one of its own
C24_Witness ==
    \E i \in DOMAIN ret :
        /\ ret[i].status = "success"
        /\ Foreign(ret[i])
        /\ Missing(ret[i])
        /\ \A t \in DOMAIN callers : callers[t].pc = "idle"

====
